---- MODULE Spec2Model ----
(***************************************************************************)
(* Model of cubes/backends/sql/common.py: coalesce_physical and the Mapper *)
(* (join collection, table_map, relevant_joins, logical, physical).        *)
(*                                                                         *)
(* A Python str is a sequence of one-character strings, so that            *)
(* concatenation and split(".") are computed, not assumed.  Python None is *)
(* the distinguished sequence None below, which is no string of the model. *)
(***************************************************************************)
EXTENDS Integers, Sequences, FiniteSets, TLC

VARIABLES fact_name, schema, dimension_table_prefix,
          simplify_dimension_references, cube_mappings, joins, exc, call

vars == <<fact_name, schema, dimension_table_prefix,
          simplify_dimension_references, cube_mappings, joins, exc, call>>

config == <<fact_name, schema, dimension_table_prefix,
            simplify_dimension_references, cube_mappings>>

(* ------------------------------ bounds -------------------------------- *)

\* longest raw join list handed to the constructor or to _collect_joins
MaxJoins == 2

\* most physical references handed to one relevant_joins call
MaxRefs == 2

\* most entries of the cube's override table
MaxMappings == 1

(* --------------------------- Python values ---------------------------- *)

None == <<"None">>

\* "if x:" on a str-or-None value
Truthy(x) == x # None /\ x # <<>>

\* "x or y"
Or(x, y) == IF Truthy(x) THEN x ELSE y

DOT == "."

RECURSIVE FirstDot(_, _)
\* index of the first "." of s at or after i, 0 when there is none
FirstDot(s, i) ==
    IF i > Len(s) THEN 0
    ELSE IF s[i] = DOT THEN i ELSE FirstDot(s, i + 1)

\* a + b on str
Concat(a, b) == a \o b

PhysicalReference(s, t, c) == [schema |-> s, table |-> t, column |-> c]

Join(m, d, a) == [master |-> m, detail |-> d, alias |-> a]

(* ------------------------- raw reference shapes ------------------------ *)

NoDict == [schema |-> None, table |-> None, column |-> None]

\* a str reference such as "table.column"
StrRef(s) == [kind |-> "str", str |-> s, items |-> <<>>, dict |-> NoDict]

\* a list or tuple reference
ListRef(xs) == [kind |-> "list", str |-> <<>>, items |-> xs, dict |-> NoDict]

\* a dict reference; a key that is absent reads as None through .get
DictRef(s, t, c) ==
    [kind |-> "dict", str |-> <<>>, items |-> <<>>,
     dict |-> [schema |-> s, table |-> t, column |-> c]]

\* the lookup of a key the override table does not hold (dict.get -> None)
NoRef == [kind |-> "none", str |-> <<>>, items |-> <<>>, dict |-> NoDict]

\* "if mapped_ref:" on a raw reference
TruthyRef(r) ==
    CASE r.kind = "str" -> r.str # <<>>
      [] r.kind = "list" -> r.items # <<>>
      [] r.kind = "dict" -> r.dict # NoDict
      [] OTHER -> FALSE

(* --------------------------- coalesce_physical ------------------------- *)

\* the final else branch: a list whose length is neither 2 nor 3 raises
CoalesceRaises(ref) ==
    ref.kind = "list" /\ Len(ref.items) \notin {2, 3}

coalesce_physical(ref, default_table, dschema) ==
    CASE ref.kind = "str" ->
            LET d == FirstDot(ref.str, 1) IN
            IF d > 0
            THEN PhysicalReference(dschema, SubSeq(ref.str, 1, d - 1),
                                   SubSeq(ref.str, d + 1, Len(ref.str)))
            ELSE PhysicalReference(dschema, default_table, ref.str)
      [] ref.kind = "dict" ->
            PhysicalReference(Or(ref.dict.schema, dschema),
                              Or(ref.dict.table, default_table),
                              ref.dict.column)
      [] ref.kind = "list" /\ Len(ref.items) = 2 ->
            PhysicalReference(dschema, ref.items[1], ref.items[2])
      [] ref.kind = "list" /\ Len(ref.items) = 3 ->
            PhysicalReference(ref.items[1], ref.items[2], ref.items[3])

(* --------------------------- _collect_joins ---------------------------- *)

RawJoin(m, d, a) == [master |-> m, detail |-> d, alias |-> a]

RECURSIVE FirstRaising(_, _)
\* index of the first raw join at or after i whose coalescing raises,
\* Len(raw) + 1 when none does
FirstRaising(raw, i) ==
    IF i > Len(raw) THEN i
    ELSE IF CoalesceRaises(raw[i].master) \/ CoalesceRaises(raw[i].detail)
         THEN i
         ELSE FirstRaising(raw, i + 1)

CollectRaises(raw) == FirstRaising(raw, 1) <= Len(raw)

\* the value of self.joins when _collect_joins(raw) ends, by return or by
\* the exception: the list is emptied first and grows one join at a time
CollectedJoins(raw, fact) ==
    [i \in 1..(FirstRaising(raw, 1) - 1) |->
        Join(coalesce_physical(raw[i].master, fact, None),
             coalesce_physical(raw[i].detail, None, None),
             raw[i].alias)]

(* ------------------------------ __init__ ------------------------------- *)

\* self.fact_name = fact_name or self.cube.fact or self.cube.name
ResolveFactName(arg, cube_fact, cube_name) == Or(arg, Or(cube_fact, cube_name))

Str(c) == <<c>>

\* "t.c" as a str
Dotted(t, c) == Concat(Concat(t, Str(DOT)), c)

\* (fact_name argument, cube.fact) pairs of the constructor; cube.name is "c"
FactArgs == {<<Str("f"), None>>, <<None, Str("f")>>}

(* ----------------------------- call frames ----------------------------- *)

Callers == {1, 2}

\* an attribute's owning dimension; present is FALSE for a fact attribute
Dimension(n, flat, details) ==
    [present |-> TRUE, name |-> n, is_flat |-> flat, has_details |-> details]

NoDimension ==
    [present |-> FALSE, name |-> <<>>, is_flat |-> FALSE, has_details |-> FALSE]

\* None where a list of str is expected
NoneList == <<None>>

\* locales is a list of str, or NoneList when the attribute has no such
\* field (the except clause) or holds None
Attribute(n, dim, locs) == [name |-> n, dimension |-> dim, locales |-> locs]

\* a caller's frame: the operation it is in and that operation's locals
Idle ==
    [op |-> "idle", pc |-> "idle", i |-> 0, tables |-> <<>>,
     attributes |-> {}, tables_to_join |-> {}, joined_tables |-> {},
     joins |-> <<>>, exc |-> "none",
     attribute |-> Attribute(<<>>, NoDimension, NoneList), locale |-> None,
     reference |-> PhysicalReference(None, None, None), logical |-> <<>>]

\* tables[k] = v on a dict
Put(d, k, v) == [x \in (DOMAIN d) \cup {k} |-> IF x = k THEN v ELSE d[x]]

(* ------------------------------ table_map ------------------------------ *)

\* BadDetail with the comparison to the fact table forgotten
BadDetailEmptyOnly(join, fact) == ~Truthy(join.detail.table)

\* line 328: the detail table is missing, empty or the fact table
BadDetail(join, fact) ==
    ~Truthy(join.detail.table) \/ join.detail.table = fact

\* lines 331-335: the two entries one join adds
AddJoinTables(tables, join) ==
    LET m == <<join.master.schema, join.master.table>>
        k == <<join.detail.schema, Or(join.alias, join.detail.table)>>
    IN  Put(Put(tables, m, m), k, <<join.detail.schema, join.detail.table>>)

TMBegin(t) ==
    /\ call[t].op = "idle"
    /\ call' = [call EXCEPT ![t] =
            [Idle EXCEPT !.op = "table_map", !.pc = "loop", !.i = 1,
                         !.tables = Put(<<>>, <<schema, fact_name>>,
                                        <<schema, fact_name>>)]]
    /\ UNCHANGED <<config, joins, exc>>

\* TMStep that drops a join with a bad detail table from self.joins and
\* goes on, instead of raising
TMStepDropsBadJoin(t) ==
    /\ call[t].op = "table_map" /\ call[t].pc = "loop"
    /\ LET f == call[t] IN
       IF f.i <= Len(joins) /\ BadDetail(joins[f.i], fact_name)
       THEN /\ joins' = SubSeq(joins, 1, f.i - 1)
                            \o SubSeq(joins, f.i + 1, Len(joins))
            /\ call' = call
       ELSE /\ joins' = joins
            /\ call' = [call EXCEPT ![t] =
                    IF f.i > Len(joins)
                    THEN [f EXCEPT !.pc = "returned"]
                    ELSE [f EXCEPT !.i = f.i + 1,
                            !.tables = AddJoinTables(f.tables, joins[f.i])]]
    /\ UNCHANGED <<config, exc>>

\* one iteration of "for join in self.joins", or the return after the last
TMStep(t) ==
    /\ call[t].op = "table_map" /\ call[t].pc = "loop"
    /\ LET f == call[t] IN
       call' = [call EXCEPT ![t] =
            IF f.i > Len(joins)
            THEN [f EXCEPT !.pc = "returned"]
            ELSE IF BadDetail(joins[f.i], fact_name)
                 THEN [f EXCEPT !.pc = "raised", !.exc = "ValueError",
                                !.tables = <<>>]
                 ELSE [f EXCEPT !.i = f.i + 1,
                                !.tables = AddJoinTables(f.tables, joins[f.i])]]
    /\ UNCHANGED <<config, joins, exc>>

(* ---------------------------- relevant_joins --------------------------- *)

MasterSide(join) == <<join.master.schema, join.master.table>>

\* DetailSide with the alias ignored
DetailSideRealName(join) == <<join.detail.schema, join.detail.table>>

DetailSide(join) == <<join.detail.schema, Or(join.alias, join.detail.table)>>

RECURSIVE FirstMatch(_, _, _)
\* lines 357-362, 372: the first join at or after i whose detail side is
\* table, 0 when the for loop ends without a match
FirstMatch(js, table, i) ==
    IF i > Len(js) THEN 0
    ELSE IF table = DetailSide(js[i]) THEN i ELSE FirstMatch(js, table, i + 1)

\* QueueMaster with its test inverted
QueueMasterIfJoined(master, joined_tables) ==
    IF master \in joined_tables THEN {master} ELSE {}

\* line 366: the master is queued unless it is already joined
QueueMaster(master, joined_tables) ==
    IF master \notin joined_tables THEN {master} ELSE {}

RJBegin(t, attributes) ==
    /\ call[t].op = "idle"
    /\ call' = [call EXCEPT ![t] =
            [Idle EXCEPT !.op = "relevant_joins", !.pc = "loop",
                         !.attributes = attributes,
                         !.tables_to_join =
                             {<<ref.schema, ref.table>> : ref \in attributes}]]
    /\ UNCHANGED <<config, joins, exc>>

\* RJPop with the table removed from the work-set only when a join matched
RJPopKeepsUnmatched(t) ==
    /\ call[t].op = "relevant_joins" /\ call[t].pc = "loop"
    /\ call[t].tables_to_join # {}
    /\ \E table \in call[t].tables_to_join :
         LET f == call[t]
             m == FirstMatch(joins, table, 1)
         IN  call' = [call EXCEPT ![t] =
                IF m = 0
                THEN f
                ELSE [f EXCEPT
                        !.joins = Append(f.joins, m),
                        !.tables_to_join =
                            (f.tables_to_join \ {table})
                                \cup QueueMaster(MasterSide(joins[m]),
                                                 f.joined_tables),
                        !.joined_tables =
                            f.joined_tables \cup {DetailSide(joins[m])}]]
    /\ UNCHANGED <<config, joins, exc>>

\* one iteration of "while tables_to_join": set.pop() takes any element
RJPop(t) ==
    /\ call[t].op = "relevant_joins" /\ call[t].pc = "loop"
    /\ call[t].tables_to_join # {}
    /\ \E table \in call[t].tables_to_join :
         LET f == call[t]
             rest == f.tables_to_join \ {table}
             m == FirstMatch(joins, table, 1)
         IN  call' = [call EXCEPT ![t] =
                IF m = 0
                THEN [f EXCEPT !.tables_to_join = rest]
                ELSE [f EXCEPT
                        !.joins = Append(f.joins, m),
                        !.tables_to_join =
                            rest \cup QueueMaster(MasterSide(joins[m]),
                                                  f.joined_tables),
                        !.joined_tables =
                            f.joined_tables \cup {DetailSide(joins[m])}]]
    /\ UNCHANGED <<config, joins, exc>>

\* the while loop ends and the list is returned
RJReturn(t) ==
    /\ call[t].op = "relevant_joins" /\ call[t].pc = "loop"
    /\ call[t].tables_to_join = {}
    /\ call' = [call EXCEPT ![t].pc = "returned"]
    /\ UNCHANGED <<config, joins, exc>>

\* the caller takes the result (or the exception) and the frame is gone
Finish(t) ==
    /\ call[t].pc \in {"returned", "raised"}
    /\ call' = [call EXCEPT ![t] = Idle]
    /\ UNCHANGED <<config, joins, exc>>

(* -------------------- the join graph: specification -------------------- *)

GraphMasters == {StrRef(Str("k")), StrRef(Dotted(Str("a"), Str("k"))),
                 StrRef(Dotted(Str("b"), Str("k")))}

GraphDetails == {StrRef(Dotted(Str("a"), Str("k"))),
                 StrRef(Dotted(Str("b"), Str("k"))),
                 ListRef(<<Str("s"), Str("a"), Str("k")>>)}

GraphAliases == {None, Str("b")}

GraphRawJoins ==
    {RawJoin(m, d, a) : m \in GraphMasters, d \in GraphDetails,
                        a \in GraphAliases}

\* sequences over S of length at most n
SeqsUpTo(S, n) == UNION {[1..k -> S] : k \in 0..n}

\* subsets of S with at most n elements
SubsetsUpTo(S, n) == {x \in SUBSET S : Cardinality(x) <= n}

GraphRefs ==
    {PhysicalReference(None, Str("a"), Str("k")),
     PhysicalReference(None, Str("a"), Str("n")),
     PhysicalReference(None, Str("b"), Str("k")),
     PhysicalReference(None, Str("f"), Str("k")),
     PhysicalReference(Str("s"), Str("a"), Str("k"))}

\* a Mapper as __init__ leaves it; a raising _collect_joins leaves no Mapper
Constructed(raws, schemas, mappings, prefixes) ==
    \E raw \in raws, s \in schemas, fa \in FactArgs,
       m \in mappings, p \in prefixes :
        /\ ~CollectRaises(raw)
        /\ fact_name = ResolveFactName(fa[1], fa[2], Str("c"))
        /\ schema = s
        /\ dimension_table_prefix = p
        /\ simplify_dimension_references = TRUE
        /\ cube_mappings = m
        /\ joins = CollectedJoins(raw, ResolveFactName(fa[1], fa[2], Str("c")))
        /\ exc = "none"
        /\ call = [t \in Callers |-> Idle]

Init == Constructed(SeqsUpTo(GraphRawJoins, MaxJoins), {None}, {<<>>}, {None})

Next ==
    \/ \E attributes \in SubsetsUpTo(GraphRefs, MaxRefs) : RJBegin(1, attributes)
    \/ RJPop(1)
    \/ RJReturn(1)
    \/ Finish(1)

Spec == Init /\ [][Next]_vars

\* every master -> detail edge over the tables f, a and b
TermRawJoins ==
    {RawJoin(m, d, None) : m \in GraphMasters,
        d \in {StrRef(Dotted(Str("a"), Str("k"))),
               StrRef(Dotted(Str("b"), Str("k")))}}

TermInit == Constructed(SeqsUpTo(TermRawJoins, MaxJoins), {None}, {<<>>}, {None})

\* the while loop is sequential code that keeps running: a call that can
\* pop does pop, and one whose work-set is empty returns
FairSpec ==
    TermInit /\ [][Next]_vars /\ WF_vars(RJPop(1)) /\ WF_vars(RJReturn(1))

(* ------------------ the join closure, as the contract states it -------- *)

\* the detail side of a join: (detail.schema, alias or detail.table)
ClaimSide(j) ==
    <<j.detail.schema,
      IF j.alias # None /\ j.alias # <<>> THEN j.alias ELSE j.detail.table>>

\* the first join in list order whose detail side is table, 0 when none is
ClaimFirst(js, table) ==
    IF \E i \in 1..Len(js) : ClaimSide(js[i]) = table
    THEN CHOOSE i \in 1..Len(js) :
            /\ ClaimSide(js[i]) = table
            /\ \A k \in 1..(i - 1) : ClaimSide(js[k]) # table
    ELSE 0

RECURSIVE JoinClosureFrom(_, _)
JoinClosureFrom(js, R) ==
    LET more == {ClaimFirst(js, <<js[i].master.schema, js[i].master.table>>) :
                    i \in R} \ {0}
    IN  IF more \subseteq R THEN R ELSE JoinClosureFrom(js, R \cup more)

\* the smallest set holding the first match of every seed and, with a join,
\* the first match of that join's master side
JoinClosure(js, seeds) ==
    JoinClosureFrom(js, {ClaimFirst(js, t) : t \in seeds} \ {0})

Seeds(f) == {<<ref.schema, ref.table>> : ref \in f.attributes}

Range(q) == {q[i] : i \in 1..Len(q)}

Returned(t, op) == call[t].op = op /\ call[t].pc = "returned"

HasAlias(j) == j.alias # None /\ j.alias # <<>> /\ j.alias # j.detail.table

\* C1: whatever the pop order, the joins relevant_joins returns are exactly
\* the join closure of its input: the first match of every input table and
\* of every returned join's master side, and nothing else.
C1_ReturnsJoinClosure ==
    \A t \in Callers :
        Returned(t, "relevant_joins") =>
            Range(call[t].joins) = JoinClosure(joins, Seeds(call[t]))

\* C1 witness: a call over two input tables returned a closure of two joins,
\* one of them reached only through a master side.
C1_Witness ==
    /\ Returned(1, "relevant_joins")
    /\ Cardinality(Seeds(call[1])) = 2
    /\ Cardinality(Range(call[1].joins)) = 2
    /\ \E k \in Range(call[1].joins) : ClaimSide(joins[k]) \notin Seeds(call[1])

\* C4 (as stated): for a join whose alias differs from its real detail table
\* name, the input naming the real table yields no join and the input naming
\* the alias yields that join.
C4_AsStated ==
    \A t \in Callers : \A i \in 1..Len(joins) :
        (Returned(t, "relevant_joins") /\ HasAlias(joins[i])) =>
            /\ Seeds(call[t]) = {<<joins[i].detail.schema, joins[i].detail.table>>}
                    => call[t].joins = <<>>
            /\ Seeds(call[t]) = {<<joins[i].detail.schema, joins[i].alias>>}
                    => i \in Range(call[t].joins)

\* C4 (amended): the table of a single input reference is matched against
\* (detail.schema, alias or detail.table) only, and the first join in list
\* order wins: the call returns nothing exactly when no join has that detail
\* side, and otherwise the first returned join is the first join with that
\* detail side.  So the real name of an aliased join is never matched to that
\* join, and its alias is matched to it unless an earlier join has the same
\* detail side.
C4_MatchesDetailSide ==
    \A t \in Callers :
        (Returned(t, "relevant_joins") /\ Cardinality(Seeds(call[t])) = 1) =>
            \A table \in Seeds(call[t]) :
                /\ (call[t].joins = <<>>) <=> (ClaimFirst(joins, table) = 0)
                /\ call[t].joins # <<>> =>
                        /\ call[t].joins[1] = ClaimFirst(joins, table)
                        /\ ClaimSide(joins[call[t].joins[1]]) = table
                /\ \A i \in 1..Len(joins) :
                     HasAlias(joins[i]) =>
                        /\ table = <<joins[i].detail.schema, joins[i].detail.table>>
                              => (call[t].joins = <<>> \/ call[t].joins[1] # i)
                        /\ (table = <<joins[i].detail.schema, joins[i].alias>>
                            /\ \A k \in 1..(i - 1) : ClaimSide(joins[k]) # table)
                              => call[t].joins[1] = i

\* C4 witness: the input names the alias of a join whose real table has
\* another name, and the call returned that join.
C4_Witness ==
    /\ Returned(1, "relevant_joins")
    /\ \E i \in 1..Len(joins) :
        /\ HasAlias(joins[i])
        /\ Seeds(call[1]) = {<<joins[i].detail.schema, joins[i].alias>>}
        /\ call[1].joins # <<>> /\ call[1].joins[1] = i

\* C9: every relevant_joins call returns: its work-set empties under every
\* pop order, cycles and self-referring joins included.
C9_Terminates ==
    (call[1].op = "relevant_joins") ~> (call[1].pc = "returned")

\* the master/detail edges of the join list form a cycle through join i
OnCycle(i) ==
    \E k \in 1..Len(joins) :
        /\ MasterSide(joins[i]) = DetailSide(joins[k])
        /\ MasterSide(joins[k]) = DetailSide(joins[i])

\* C9 witness: a call returned after walking a cycle of the join list.
C9_Witness ==
    /\ Returned(1, "relevant_joins")
    /\ \E i \in Range(call[1].joins) : OnCycle(i)

\* C10: the returned list never holds the same entry of the join list twice.
C10_NoJoinTwice ==
    \A t \in Callers :
        Returned(t, "relevant_joins") =>
            \A a, b \in 1..Len(call[t].joins) :
                call[t].joins[a] = call[t].joins[b] => a = b

(* ------------------- re-collection and the table map -------------------- *)

\* _collect_joins(raw) called on a constructed Mapper, the callers being
\* serialized with it: self.joins is emptied and rebuilt join by join, and
\* an exception of coalesce_physical leaves what was built so far
Recollect(raw) ==
    /\ \A t \in Callers : call[t].op = "idle"
    /\ joins' = CollectedJoins(raw, fact_name)
    /\ exc' = IF CollectRaises(raw) THEN "Exception" ELSE "none"
    /\ UNCHANGED <<config, call>>

CollectMasters ==
    {StrRef(Str("k")),
     ListRef(<<Str("s"), Str("a"), Str("k"), Str("x")>>)}

CollectDetails ==
    {StrRef(Dotted(Str("a"), Str("k"))),
     StrRef(Str("k")),
     ListRef(<<Str("f"), Str("k")>>),
     ListRef(<<Str("a")>>)}

CollectAliases == {None, Str("f")}

CollectRawJoins ==
    {RawJoin(m, d, a) : m \in CollectMasters, d \in CollectDetails,
                        a \in CollectAliases}

CollectInit == Constructed(SeqsUpTo(CollectRawJoins, MaxJoins), {None}, {<<>>}, {None})

CollectNext ==
    \/ \E raw \in SeqsUpTo(CollectRawJoins, MaxJoins) : Recollect(raw)
    \/ TMBegin(1)
    \/ TMStep(1)
    \/ Finish(1)

SpecCollect == CollectInit /\ [][CollectNext]_vars

\* a detail table that is empty, absent or the fact table
ClaimBadDetail(j) ==
    j.detail.table = None \/ j.detail.table = <<>> \/ j.detail.table = fact_name

\* C2: the map table_map returns holds the key (schema, fact table) and maps
\* it to itself, also when a join's alias is the fact table name.
C2_FactMapsToItself ==
    \A t \in Callers :
        Returned(t, "table_map") =>
            /\ <<schema, fact_name>> \in DOMAIN call[t].tables
            /\ call[t].tables[<<schema, fact_name>>] = <<schema, fact_name>>

\* C3: table_map raises ValueError (InvalidJoinDetail) and returns no map
\* exactly when some join of the list has a detail table that is empty,
\* absent or the fact table; otherwise it returns a map and raises nothing.
C3_RaisesIffBadDetail ==
    \A t \in Callers :
        call[t].op = "table_map" =>
            /\ call[t].pc = "raised" =>
                    /\ call[t].exc = "ValueError"
                    /\ call[t].tables = <<>>
                    /\ \E i \in 1..Len(joins) : ClaimBadDetail(joins[i])
            /\ call[t].pc = "returned" =>
                    /\ call[t].exc = "none"
                    /\ call[t].tables # <<>>
                    /\ \A i \in 1..Len(joins) : ~ClaimBadDetail(joins[i])
            /\ call[t].pc = "loop" =>
                    \A i \in 1..(call[t].i - 1) : ~ClaimBadDetail(joins[i])

\* C3 witness: table_map raised on the second join, after a first join with
\* a good detail table had been entered in the map.
C3_Witness ==
    /\ call[1].op = "table_map" /\ call[1].pc = "raised"
    /\ Len(joins) >= 2
    /\ ~ClaimBadDetail(joins[1])
    /\ joins[2].detail.table = fact_name

\* C7: a re-collection that raises leaves the join list as it was before
\* the call.
C7_RecollectFailsAtomically ==
    [][\A raw \in SeqsUpTo(CollectRawJoins, MaxJoins) :
          (Recollect(raw) /\ CollectRaises(raw)) => joins' = joins]_vars

\* C8: every join of the Mapper's join list has a detail table that is not
\* empty and is not the fact table.
C8_DetailNeverFact ==
    \A i \in 1..Len(joins) : ~ClaimBadDetail(joins[i])

(* -------------------------- logical, physical --------------------------- *)

\* lines 189-190 and 296-298: the dimension's references are simplified
Simplified(dimension) ==
    simplify_dimension_references
        /\ (dimension.is_flat /\ ~dimension.has_details)

logical(attribute) ==
    IF attribute.dimension.present
    THEN IF Simplified(attribute.dimension)
         THEN attribute.dimension.name
         ELSE Concat(Concat(attribute.dimension.name, Str(DOT)), attribute.name)
    ELSE attribute.name

\* lines 264-271: the requested locale if the attribute has it, else the
\* attribute's first locale, else None
FixLocale(attribute, locale) ==
    IF attribute.locales # NoneList /\ attribute.locales # <<>>
    THEN IF \E i \in 1..Len(attribute.locales) : attribute.locales[i] = locale
         THEN locale
         ELSE attribute.locales[1]
    ELSE None

\* lines 275-279: the key looked up in the override table
MappingKey(attribute, locale) ==
    IF Truthy(locale)
    THEN Concat(Concat(logical(attribute), Str(DOT)), locale)
    ELSE logical(attribute)

\* MappedRef that falls back to the key without the locale (the TODO of
\* line 281)
MappedRefOrUnlocalized(attribute, locale) ==
    IF cube_mappings # <<>> /\ MappingKey(attribute, locale) \in DOMAIN cube_mappings
    THEN cube_mappings[MappingKey(attribute, locale)]
    ELSE IF cube_mappings # <<>> /\ logical(attribute) \in DOMAIN cube_mappings
         THEN cube_mappings[logical(attribute)]
         ELSE NoRef

\* line 283: self.cube.mappings.get(logical)
MappedRef(attribute, locale) ==
    IF cube_mappings # <<>> /\ MappingKey(attribute, locale) \in DOMAIN cube_mappings
    THEN cube_mappings[MappingKey(attribute, locale)]
    ELSE NoRef

\* lines 290-306: the reference the naming convention gives
DefaultReference(attribute, locale) ==
    LET column_name == IF Truthy(locale)
                       THEN Concat(Concat(attribute.name, Str("_")), locale)
                       ELSE attribute.name
        table_name ==
            IF attribute.dimension.present /\ ~Simplified(attribute.dimension)
            THEN IF Truthy(dimension_table_prefix)
                 THEN Concat(dimension_table_prefix, attribute.dimension.name)
                 ELSE attribute.dimension.name
            ELSE fact_name
    IN  PhysicalReference(schema, table_name, column_name)

\* physical(attribute, locale): the frame it ends in
physical(f, attribute, requested) ==
    LET locale == FixLocale(attribute, requested)
        mapped_ref == MappedRef(attribute, locale)
        g == [f EXCEPT !.op = "physical", !.attribute = attribute,
                       !.locale = requested]
    IN  IF TruthyRef(mapped_ref)
        THEN IF CoalesceRaises(mapped_ref)
             THEN [g EXCEPT !.pc = "raised", !.exc = "Exception"]
             ELSE [g EXCEPT !.pc = "returned",
                     !.reference = coalesce_physical(mapped_ref, fact_name, schema)]
        ELSE [g EXCEPT !.pc = "returned",
                       !.reference = DefaultReference(attribute, locale)]

Physical(t, attribute, requested) ==
    /\ call[t].op = "idle"
    /\ call' = [call EXCEPT ![t] = physical(Idle, attribute, requested)]
    /\ UNCHANGED <<config, joins, exc>>

Logical(t, attribute) ==
    /\ call[t].op = "idle"
    /\ call' = [call EXCEPT ![t] =
            [Idle EXCEPT !.op = "logical", !.pc = "returned",
                         !.attribute = attribute,
                         !.logical = logical(attribute)]]
    /\ UNCHANGED <<config, joins, exc>>

(* ---------------- physical references: specification ------------------- *)

Dimensions ==
    {NoDimension,
     Dimension(Str("d"), TRUE, FALSE),
     Dimension(Str("d"), TRUE, TRUE),
     Dimension(Str("d"), FALSE, FALSE)}

LocaleLists ==
    {NoneList, <<>>, <<Str("e")>>, <<Str("e"), Str("g")>>, <<<<>>, Str("e")>>}

Attributes ==
    {Attribute(Str("n"), d, l) : d \in Dimensions, l \in LocaleLists}

RequestedLocales == {None, Str("e"), Str("g"), Str("x")}

MappingKeys ==
    {Str("n"), Dotted(Str("n"), Str("e")), Str("d"), Dotted(Str("d"), Str("n")),
     Dotted(Str("d"), Str("e")), Dotted(Dotted(Str("d"), Str("n")), Str("e"))}

MappingValues ==
    {StrRef(Dotted(Str("t"), Str("c"))),
     StrRef(Str("c")),
     StrRef(<<>>),
     ListRef(<<Str("t"), Str("c")>>),
     ListRef(<<Str("u"), Str("t"), Str("c")>>),
     ListRef(<<Str("t")>>),
     DictRef(None, None, Str("c"))}

\* the override tables with at most n entries; the empty one also stands
\* for a cube without mappings
MappingTables(n) ==
    UNION {[K -> MappingValues] : K \in SubsetsUpTo(MappingKeys, n)}

PhysicalInit ==
    Constructed({<<>>}, {None, Str("s")}, MappingTables(MaxMappings),
                {None, Str("p")})

PhysicalNext ==
    \/ \E a \in Attributes, l \in RequestedLocales : Physical(1, a, l)
    \/ \E a \in Attributes : Logical(1, a)
    \/ Finish(1)

SpecPhysical == PhysicalInit /\ [][PhysicalNext]_vars

(* ----------------- physical, as the contract states it ------------------ *)

Ended(t, op) == call[t].op = op /\ call[t].pc \in {"returned", "raised"}

\* the resolved locale L: the requested locale if the attribute declares it,
\* else its first declared locale, else none
ClaimLocale(a, requested) ==
    IF a.locales = NoneList \/ Len(a.locales) = 0 THEN None
    ELSE IF requested \in Range(a.locales) THEN requested ELSE a.locales[1]

\* the convention reference for the locale suffix given (None for no suffix)
ClaimConvention(a, suffix) ==
    PhysicalReference(
        schema,
        IF a.dimension.present
             /\ ~(simplify_dimension_references /\ a.dimension.is_flat
                    /\ ~a.dimension.has_details)
        THEN (IF dimension_table_prefix = None THEN <<>>
              ELSE dimension_table_prefix) \o a.dimension.name
        ELSE fact_name,
        IF suffix = None THEN a.name ELSE a.name \o <<"_">> \o suffix)

\* the frame ends with the override's entry coalesced
EndsCoalesced(f, entry) ==
    IF CoalesceRaises(entry)
    THEN f.pc = "raised"
    ELSE f.pc = "returned"
            /\ f.reference = coalesce_physical(entry, fact_name, schema)

\* C5 (as stated): an entry of the override table under logical(attribute)
\* plus "." + L (L not none) wins, coalesced with the fact table name and the
\* default schema; without such an entry the result is the convention
\* reference with "_" + L appended to the column.
C5_AsStated ==
    \A t \in Callers :
        Ended(t, "physical") =>
            LET a == call[t].attribute
                L == ClaimLocale(a, call[t].locale)
                key == IF L = None THEN logical(a)
                       ELSE logical(a) \o <<".">> \o L
            IN  IF key \in DOMAIN cube_mappings
                THEN EndsCoalesced(call[t], cube_mappings[key])
                ELSE call[t].pc = "returned"
                        /\ call[t].reference = ClaimConvention(a, L)

\* C5 (amended): as stated, with an empty locale counting as none and an
\* empty entry (an empty string, list or record) counting as no entry.
C5_OverrideBeforeConvention ==
    \A t \in Callers :
        Ended(t, "physical") =>
            LET a == call[t].attribute
                L == ClaimLocale(a, call[t].locale)
                suffix == IF L = <<>> THEN None ELSE L
                key == IF suffix = None THEN logical(a)
                       ELSE logical(a) \o <<".">> \o suffix
                entry == IF key \in DOMAIN cube_mappings
                         THEN cube_mappings[key] ELSE NoRef
                empty == \/ entry.kind = "none"
                         \/ entry.kind = "str" /\ Len(entry.str) = 0
                         \/ entry.kind = "list" /\ Len(entry.items) = 0
                         \/ entry.kind = "dict" /\ entry.dict = NoDict
            IN  IF ~empty
                THEN EndsCoalesced(call[t], entry)
                ELSE call[t].pc = "returned"
                        /\ call[t].reference = ClaimConvention(a, suffix)

\* C5 witness: a localized dimension attribute whose override table holds an
\* entry under the key without the locale suffix only: the convention
\* reference, with the locale in the column name, was returned.
C5_Witness ==
    /\ Returned(1, "physical")
    /\ call[1].attribute.dimension.present
    /\ ~Simplified(call[1].attribute.dimension)
    /\ FixLocale(call[1].attribute, call[1].locale) = Str("g")
    /\ DOMAIN cube_mappings = {logical(call[1].attribute)}
    /\ TruthyRef(cube_mappings[logical(call[1].attribute)])
    /\ dimension_table_prefix = Str("p")
    /\ call[1].reference =
         PhysicalReference(schema, <<"p", "d">>, <<"n", "_", "g">>)

(* ------------------- concurrent readers: specification ----------------- *)

ReaderRawJoins ==
    {RawJoin(StrRef(Str("k")), StrRef(Dotted(Str("a"), Str("k"))), None),
     RawJoin(StrRef(Dotted(Str("b"), Str("k"))),
             StrRef(Dotted(Str("a"), Str("k"))), Str("c")),
     RawJoin(StrRef(Dotted(Str("a"), Str("k"))),
             StrRef(Dotted(Str("a"), Str("k"))), None),
     RawJoin(StrRef(Str("k")), ListRef(<<Str("f"), Str("k")>>), Str("b"))}

ReaderRefs ==
    {PhysicalReference(None, Str("a"), Str("k")),
     PhysicalReference(None, Str("b"), Str("k")),
     PhysicalReference(None, Str("c"), Str("k"))}

ReaderAttributes ==
    {Attribute(Str("n"), NoDimension, <<Str("e")>>),
     Attribute(Str("n"), Dimension(Str("d"), FALSE, FALSE), NoneList)}

ReaderMappings ==
    Put(<<>>, Dotted(Str("d"), Str("n")), StrRef(Dotted(Str("t"), Str("c"))))

ReaderInit ==
    Constructed(SeqsUpTo(ReaderRawJoins, MaxJoins), {None}, {ReaderMappings},
                {None})

\* any number of calls of the four read-only operations, interleaved step
\* by step; nothing re-collects
ReaderNext ==
    \E t \in Callers :
        \/ \E attributes \in SubsetsUpTo(ReaderRefs, MaxRefs) :
                RJBegin(t, attributes)
        \/ RJPop(t)
        \/ RJReturn(t)
        \/ TMBegin(t)
        \/ TMStep(t)
        \/ \E a \in ReaderAttributes : Physical(t, a, None)
        \/ \E a \in ReaderAttributes : Logical(t, a)
        \/ Finish(t)

SpecReaders == ReaderInit /\ [][ReaderNext]_vars

RECURSIVE AloneRelevantJoins(_, _, _, _)
\* the lists relevant_joins can return when it runs alone on the join list
\* js, one for each order in which the work-set can be popped
AloneRelevantJoins(js, todo, joined, found) ==
    IF todo = {} THEN {found}
    ELSE UNION {
        LET m == ClaimFirst(js, table)
            master == <<js[m].master.schema, js[m].master.table>>
        IN  IF m = 0
            THEN AloneRelevantJoins(js, todo \ {table}, joined, found)
            ELSE AloneRelevantJoins(
                    js,
                    (todo \ {table})
                        \cup (IF master \in joined THEN {} ELSE {master}),
                    joined \cup {ClaimSide(js[m])},
                    Append(found, m))
        : table \in todo}

RECURSIVE AloneTableMap(_, _, _)
\* what table_map does when it runs alone on the join list js
AloneTableMap(js, i, tables) ==
    IF i > Len(js) THEN [pc |-> "returned", tables |-> tables]
    ELSE IF ClaimBadDetail(js[i]) THEN [pc |-> "raised", tables |-> <<>>]
    ELSE AloneTableMap(js, i + 1,
            Put(Put(tables,
                    <<js[i].master.schema, js[i].master.table>>,
                    <<js[i].master.schema, js[i].master.table>>),
                ClaimSide(js[i]),
                <<js[i].detail.schema, js[i].detail.table>>))

\* every call that has ended holds what the same call gives when run alone
\* on the Mapper as constructed
SameAsAlone ==
    \A t \in Callers :
        /\ Returned(t, "relevant_joins") =>
             call[t].joins \in
                AloneRelevantJoins(joins, Seeds(call[t]), {}, <<>>)
        /\ Ended(t, "table_map") =>
             LET alone == AloneTableMap(joins, 1,
                            Put(<<>>, <<schema, fact_name>>,
                                <<schema, fact_name>>))
             IN  call[t].pc = alone.pc /\ call[t].tables = alone.tables
        /\ Ended(t, "physical") =>
             call[t] = physical(Idle, call[t].attribute, call[t].locale)
        /\ Ended(t, "logical") =>
             call[t].logical = logical(call[t].attribute)

\* C6: logical, physical, table_map and relevant_joins leave the attribute
\* configuration and the join list as they are, so under every interleaving
\* of concurrent calls each call returns what it returns when run alone.
C6_ReadersDoNotInterfere ==
    [](SameAsAlone) /\ [][UNCHANGED <<config, joins>>]_vars

\* C6 witness: a relevant_joins call returned two joins while the other
\* caller was in the middle of table_map.
C6_Witness ==
    /\ Returned(1, "relevant_joins")
    /\ Len(call[1].joins) >= 2
    /\ call[2].op = "table_map" /\ call[2].pc = "loop" /\ call[2].i = 2

====
